---- MODULE Spec2Model ----
(***************************************************************************)
(* Agent dispatch and workflow orchestration of pal-mcp-server:            *)
(* tools/multi_model_workflow.py (WorkflowOrchestrator, the five workflow  *)
(* bodies, _execute_single_task, _select_model, _generate_workflow_report) *)
(* and tools/specialized_agents.py (the agents' execute methods,           *)
(* _execute_with_model, _execute_consensus_workflow, _analyze_consensus).  *)
(*                                                                         *)
(* A text is a tuple of string tokens, so that prefixes ("Error: ") and    *)
(* interpolated values stay visible.  An absent dictionary key is the      *)
(* value None.  One behaviour is one call of WorkflowOrchestrator.execute; *)
(* the actions are the synchronous stretches between two suspension points *)
(* (the provider round-trips).                                             *)
(***************************************************************************)
EXTENDS Integers, Sequences, FiniteSets, TLC

None == "none"

(* ----------------------------------------------------------------------- *)
(* Bounds of the model                                                     *)
(* ----------------------------------------------------------------------- *)

\* longest task list handed to a named workflow
MaxTasks == 4

\* longest task list handed to the custom workflow
MaxCustomTasks == 3

(* ----------------------------------------------------------------------- *)
(* Agents (specialized_agents.py)                                          *)
(* ----------------------------------------------------------------------- *)

\* WorkflowOrchestrator.__init__: the keys of self.agents
OrchestratorAgents ==
    { "architecture", "implementation", "optimization", "content", "consensus",
      "procedural_puzzle", "dynamic_difficulty", "narrative", "asset_optimization" }

\* preferred_model of each agent's constructor
PreferredModel(agent) ==
    CASE agent = "architecture"       -> "gemini-pro"
      [] agent = "implementation"     -> "gemini-flash"
      [] agent = "optimization"       -> "ollama"
      [] agent = "content"            -> "claude-haiku"
      [] agent = "consensus"          -> "consensus"
      [] agent = "procedural_puzzle"  -> "gemini-pro"
      [] agent = "dynamic_difficulty" -> "gemini-pro"
      [] agent = "narrative"          -> "claude-haiku"
      [] agent = "asset_optimization" -> "ollama"

\* thinking_mode of each agent's constructor
DefaultThinkingMode(agent) ==
    CASE agent = "architecture"       -> "high"
      [] agent = "implementation"     -> "medium"
      [] agent = "optimization"       -> "medium"
      [] agent = "content"            -> "medium"
      [] agent = "consensus"          -> "high"
      [] agent = "procedural_puzzle"  -> "high"
      [] agent = "dynamic_difficulty" -> "medium"
      [] agent = "narrative"          -> "high"
      [] agent = "asset_optimization" -> "medium"

\* the key each execute reads with arguments[...] (KeyError when absent)
RequiredKey(agent) ==
    CASE agent = "dynamic_difficulty" -> "player_data"
      [] agent = "asset_optimization" -> "assets"
      [] OTHER                        -> "prompt"

\* the agents whose execute reads arguments.get("model", self.preferred_model)
\* and arguments.get("thinking_mode", self.thinking_mode); the others call
\* _execute_with_model(self.preferred_model, context, self.thinking_mode)
ReadsModelArgument(agent) ==
    agent \in { "architecture", "implementation", "optimization", "content" }

\* ConsensusAgent.execute: arguments.get("models", [...]); no caller in the
\* orchestrator passes "models"
ConsensusModels == << "gemini-pro", "gpt-5", "claude-haiku" >>

(* ----------------------------------------------------------------------- *)
(* _select_model (multi_model_workflow.py)                                 *)
(* ----------------------------------------------------------------------- *)

\* the model_map literal of _select_model
ModelMap ==
    [ architecture       |-> "gemini-pro",
      implementation     |-> "gemini-flash",
      optimization       |-> "ollama",
      content            |-> "claude-haiku",
      procedural_puzzle  |-> "gemini-pro",
      dynamic_difficulty |-> "gemini-pro",
      narrative          |-> "claude-haiku",
      asset_optimization |-> "ollama" ]

\* the bug "no default": an agent type outside model_map gets the premium model
BaseModelPremiumDefault(agent_type) ==
    IF agent_type \in DOMAIN ModelMap THEN ModelMap[agent_type] ELSE "gemini-pro"

\* model_map.get(agent_type, "gemini-flash")
BaseModel(agent_type) ==
    IF agent_type \in DOMAIN ModelMap THEN ModelMap[agent_type] ELSE "gemini-flash"

\* the bug "branches swapped": cost_optimized takes the performance branch
\* and performance_optimized the cost branch
select_model_swapped(agent_type, strategy) ==
    LET base_model == IF agent_type \in DOMAIN ModelMap THEN ModelMap[agent_type]
                      ELSE "gemini-flash"
    IN  IF strategy = "performance_optimized"
        THEN IF base_model \in { "gemini-pro", "claude-haiku" } THEN "gemini-flash"
             ELSE base_model
        ELSE IF strategy = "cost_optimized"
        THEN IF base_model \in { "gemini-flash", "ollama" } THEN "gemini-pro"
             ELSE base_model
        ELSE IF strategy = "balanced"
        THEN IF base_model \in { "gemini-pro", "ollama" } THEN "gemini-flash"
             ELSE base_model
        ELSE base_model

\* _select_model(agent_type, strategy)
select_model(agent_type, strategy) ==
    LET base_model == BaseModel(agent_type)
    IN  IF strategy = "cost_optimized"
        THEN IF base_model = "gemini-pro" THEN "gemini-flash"
             ELSE IF base_model = "claude-haiku" THEN "gemini-flash"
             ELSE base_model
        ELSE IF strategy = "performance_optimized"
        THEN IF base_model = "gemini-flash" THEN "gemini-pro"
             ELSE IF base_model = "ollama" THEN "gemini-pro"
             ELSE base_model
        ELSE IF strategy = "balanced"
        THEN IF base_model = "gemini-pro" THEN "gemini-flash"
             ELSE IF base_model = "ollama" THEN "gemini-flash"
             ELSE base_model
        ELSE base_model

(* ----------------------------------------------------------------------- *)
(* Texts: exception messages, provider content, consensus rendering        *)
(* ----------------------------------------------------------------------- *)

\* the content of a model's answer to the request of agent call `id`: an
\* opaque text, told apart from every other answer of the run
ResponseContent(id, model) == << "answer of " \o model \o " to " \o id >>

\* str(e) of the exception a failing generate_response raises
ProviderFailure == << "provider failure" >>

\* str(KeyError(key))
KeyErrorText(key) == << "'", key, "'" >>

\* a StopIteration leaving a coroutine (next(...) without a default)
StopIterationText == << "coroutine raised StopIteration" >>

\* _execute_single_task: ToolExecutionError(f"Unknown agent: {agent_name}")
UnknownAgentText(agent_name) == << "Unknown agent: ", agent_name >>

\* _execute_with_model: ToolExecutionError(f"Model {model} not available")
NotAvailableText(model) == << "Model ", model, " not available" >>

\* _execute_with_model: ToolExecutionError(f"Failed to execute with model {model}: {e}")
FailedToExecuteText(model, e) == << "Failed to execute with model ", model, ": " >> \o e

\* _execute_consensus_workflow: ToolExecutionError(f"Consensus workflow failed: {e}")
ConsensusFailedText(e) == << "Consensus workflow failed: " >> \o e

\* execute: ToolExecutionError(f"Unknown workflow type: {workflow_type}")
UnknownWorkflowText(workflow_type) == << "Unknown workflow type: ", workflow_type >>

\* f"Error: {e}" of the custom workflow
ErrorText(e) == << "Error: " >> \o e

IsErrorText(text) == Len(text) > 0 /\ text[1] = "Error: "

\* str.upper() on the model names the consensus agent uses
Upper(model) ==
    CASE model = "gemini-pro"   -> "GEMINI-PRO"
      [] model = "gpt-5"        -> "GPT-5"
      [] model = "claude-haiku" -> "CLAUDE-HAIKU"
      [] OTHER                  -> model

RECURSIVE ConsensusSections(_)
ConsensusSections(responses) ==
    IF responses = << >> THEN << >>
    ELSE << "### ", Upper(Head(responses).model), " Analysis:" >>
         \o Head(responses).response \o ConsensusSections(Tail(responses))

\* _analyze_consensus: one section per collected response, then the fixed
\* synthesis text
analyze_consensus(responses) ==
    << "## CONSENSUS ANALYSIS" >> \o ConsensusSections(responses)
    \o << "## SYNTHESIS AND RECOMMENDATIONS",
          "Based on the multiple model analyses, here are the key consensus points:",
          "1. **Common Recommendations**", "2. **Areas of Agreement**",
          "3. **Divergent Opinions**", "4. **Final Recommendations**" >>

\* "\n\n".join(results)
RECURSIVE JoinBlank(_)
JoinBlank(results) ==
    IF results = << >> THEN << >>
    ELSE IF Len(results) = 1 THEN results[1]
    ELSE results[1] \o << "\n\n" >> \o JoinBlank(Tail(results))

(* ----------------------------------------------------------------------- *)
(* Inputs of WorkflowOrchestrator.execute                                  *)
(* ----------------------------------------------------------------------- *)

NamedWorkflowTypes ==
    { "game_development", "puzzle_generation", "content_creation", "optimization" }

KnownWorkflowTypes == NamedWorkflowTypes \cup { "custom" }

\* the five types and one value that is none of them
WorkflowTypes == KnownWorkflowTypes \cup { "nonsense" }

\* the strategies of get_input_schema
Strategies == { "auto", "cost_optimized", "performance_optimized", "balanced" }

\* the strategies the workflow runs are started with: the default and one
\* that substitutes
RunStrategies == { "auto", "cost_optimized" }

\* a task dictionary: the keys the orchestrator reads; None is an absent key
Task(type, agent, prompt, name, thinking_mode) ==
    [ type |-> type, agent |-> agent, prompt |-> prompt, name |-> name,
      thinking_mode |-> thinking_mode ]

\* the tasks a list is made of. Named workflows: the task types the workflow
\* looks for (game_development: two architecture tasks, two implementation
\* tasks and a content task without a prompt). Custom: a plain task, a task with agent, name and
\* thinking_mode, a task without a prompt, a task whose agent is not in
\* self.agents, and a consensus task
TaskPool(workflow_type) ==
    CASE workflow_type = "game_development" ->
           { Task("architecture", None, "design", None, None),
             Task("architecture", None, "redesign", None, None),
             Task("implementation", None, "code A", None, None),
             Task("implementation", None, "code B", None, None),
             Task("content", None, None, None, None),
             Task("optimization", None, "tune", None, None) }
      [] workflow_type = "puzzle_generation" ->
           { Task("theme_analysis", None, "theme", None, None),
             Task("procedural_generation", None, "generate", None, None),
             Task("difficulty_balancing", None, None, None, None),
             Task("narrative_integration", None, "story", None, None) }
      [] workflow_type = "content_creation" ->
           { Task("story_development", None, "story", None, None),
             Task("character_creation", None, "cast", None, None),
             Task("scene_writing", None, "scene", None, None),
             Task("asset_generation", None, None, None, None) }
      [] workflow_type = "optimization" ->
           { Task("performance_analysis", None, "measure", None, None),
             Task("bottleneck_identification", None, "find", None, None),
             Task("optimization_recommendations", None, "advise", None, None),
             Task("implementation_plan", None, "plan", None, None) }
      [] workflow_type = "custom" ->
           { Task("architecture", None, "design", None, None),
             Task("review", "implementation", "code", "Alpha", "low"),
             Task("content", None, None, None, None),
             Task("story_weaver", None, "weave", None, None),
             Task("consensus", None, "decide", None, None) }
      [] OTHER ->
           { Task("architecture", None, "design", None, None) }

MaxLen(workflow_type) ==
    IF workflow_type = "custom" THEN MaxCustomTasks ELSE MaxTasks

\* a list holds at most one consensus task
OneConsensus(list) ==
    \A i, j \in 1..Len(list) :
        list[i].type = "consensus" /\ list[j].type = "consensus" => i = j

\* a list holds each task of the pool at most once
NoRepeat(list) ==
    \A i, j \in 1..Len(list) : list[i] = list[j] => i = j

TaskLists(workflow_type) ==
    { list \in UNION { [1..n -> TaskPool(workflow_type)] :
                          n \in 0..MaxLen(workflow_type) } :
        OneConsensus(list) /\ NoRepeat(list) }

\* the context keys a workflow's inclusion predicates test
ContextKeys(workflow_type) ==
    CASE workflow_type = "puzzle_generation" -> { "difficulty_adjustment", "narrative" }
      [] workflow_type = "content_creation"  -> { "characters", "assets" }
      [] OTHER                               -> { }

\* a context mapping, as the set of its keys
Contexts(workflow_type) == SUBSET ContextKeys(workflow_type)

(* ----------------------------------------------------------------------- *)
(* The step tables of the four named workflows                             *)
(*   name      the step's name in workflow_steps                           *)
(*   include   "task": some task has the type; "always"; or a context key  *)
(*   type      the task type next(...) looks for                           *)
(*   prompt    whether the step reads task["prompt"]                       *)
(*   each      TRUE: one agent call per task of the type, results joined   *)
(*   agent     the key of self.agents                                      *)
(*   model     "select": self._select_model(agent, model_strategy), the    *)
(*             agent type being the agent's key in every step that         *)
(*             selects; otherwise the literal handed over                  *)
(*   thinking  the thinking_mode literal handed over                       *)
(*   keys      the keys of the argument dictionary                         *)
(* ----------------------------------------------------------------------- *)

Step(name, include, type, prompt, each, agent, model, thinking, keys) ==
    [ name |-> name, include |-> include, type |-> type, prompt |-> prompt,
      each |-> each, agent |-> agent, model |-> model, thinking |-> thinking,
      keys |-> keys ]

PromptFilesKeys == { "prompt", "files", "model", "thinking_mode" }
PromptKeys == { "prompt", "model", "thinking_mode" }
NarrativeKeys == { "prompt", "theme", "tone", "length", "model", "thinking_mode" }

GameDevelopmentSteps ==
    << Step("Architecture Planning", "task", "architecture", TRUE, FALSE,
            "architecture", "select", "high", PromptFilesKeys),
       Step("Implementation", "task", "implementation", TRUE, TRUE,
            "implementation", "select", "medium", PromptFilesKeys),
       Step("Content Creation", "task", "content", TRUE, FALSE,
            "content", "select", "medium", PromptFilesKeys),
       Step("Performance Optimization", "task", "optimization", TRUE, FALSE,
            "optimization", "select", "medium", PromptFilesKeys) >>

PuzzleGenerationSteps ==
    << Step("Theme Analysis", "always", "theme_analysis", TRUE, FALSE,
            "content", "claude-haiku", "medium", PromptKeys),
       Step("Puzzle Generation", "always", "procedural_generation", TRUE, FALSE,
            "procedural_puzzle", "select", "high",
            { "prompt", "theme", "difficulty", "variations", "model", "thinking_mode" }),
       Step("Difficulty Balancing", "difficulty_adjustment", "difficulty_balancing",
            FALSE, FALSE, "dynamic_difficulty", "select", "medium",
            { "player_data", "current_difficulty", "metrics", "model", "thinking_mode" }),
       Step("Narrative Integration", "narrative", "narrative_integration", TRUE, FALSE,
            "narrative", "select", "high", NarrativeKeys) >>

ContentCreationSteps ==
    << Step("Story Development", "always", "story_development", TRUE, FALSE,
            "narrative", "select", "high", NarrativeKeys),
       Step("Character Creation", "characters", "character_creation", TRUE, FALSE,
            "content", "select", "medium", PromptKeys),
       Step("Scene Writing", "always", "scene_writing", TRUE, FALSE,
            "narrative", "select", "high", NarrativeKeys),
       Step("Asset Generation", "assets", "asset_generation", FALSE, FALSE,
            "asset_optimization", "select", "medium",
            { "assets", "target_size", "requirements", "model", "thinking_mode" }) >>

OptimizationSteps ==
    << Step("Performance Analysis", "always", "performance_analysis", TRUE, FALSE,
            "optimization", "select", "medium", PromptFilesKeys),
       Step("Bottleneck Identification", "always", "bottleneck_identification", TRUE,
            FALSE, "optimization", "select", "medium", PromptFilesKeys),
       Step("Optimization Recommendations", "always", "optimization_recommendations",
            TRUE, FALSE, "optimization", "select", "medium", PromptFilesKeys),
       Step("Implementation Strategy", "always", "implementation_plan", TRUE, FALSE,
            "architecture", "select", "high", PromptFilesKeys) >>

StepTable(workflow_type) ==
    CASE workflow_type = "game_development"  -> GameDevelopmentSteps
      [] workflow_type = "puzzle_generation" -> PuzzleGenerationSteps
      [] workflow_type = "content_creation"  -> ContentCreationSteps
      [] workflow_type = "optimization"      -> OptimizationSteps
      [] OTHER                               -> << >>

\* the name each workflow hands to _generate_workflow_report
WorkflowName(workflow_type) ==
    CASE workflow_type = "game_development"  -> "Game Development"
      [] workflow_type = "puzzle_generation" -> "Puzzle Generation"
      [] workflow_type = "content_creation"  -> "Content Creation"
      [] workflow_type = "optimization"      -> "Optimization"
      [] OTHER                               -> "Custom Workflow"

(* ----------------------------------------------------------------------- *)
(* State                                                                   *)
(* ----------------------------------------------------------------------- *)

VARIABLES
    workflow_type,   \* arguments["workflow_type"]
    tasks,           \* arguments["tasks"]
    context,         \* arguments.get("context", {}), as its set of keys
    parallel,        \* arguments.get("parallel", False)
    model_strategy,  \* arguments.get("model_strategy", "auto")
    pc,              \* "init", "run", "done": where execute stands
    si,              \* sequential runs: the step (named) or task (custom) at hand
    ti,              \* the tasks of an `each` step already executed
    acc,             \* the results of an `each` step so far
    co,              \* the agent calls: one slot per task (custom), one slot (named)
    calls,           \* every provider round-trip started, in starting order
    workflow_steps,  \* the (step name, step text) pairs collected
    result,          \* what execute returned or raised
    sel,             \* the calls of _select_model made on their own
    room,            \* a WritersRoomTool: its session_history and the calls of execute
    phase            \* the use of specialized_agents_expanded.PhaseCoordinator

vars == << workflow_type, tasks, context, parallel, model_strategy, pc, si, ti, acc,
           co, calls, workflow_steps, result, sel, room, phase >>

inputs == << workflow_type, tasks, context, parallel, model_strategy >>

\* an agent call that has not begun
NewCall ==
    [ st |-> "new", id |-> None, agent |-> None, model |-> None, thinking |-> None,
      task |-> 0, mi |-> 0, responses |-> << >>, val |-> << >> ]

Raised(c, e) == [ c EXCEPT !.st = "exc", !.val = e ]

Returned(c, text) == [ c EXCEPT !.st = "ret", !.val = text ]

NoResult == [ kind |-> "none" ]

NoSelect == [ stage |-> "off" ]

NoRoom == [ stage |-> "off" ]

NoPhase == [ stage |-> "off" ]

(* ----------------------------------------------------------------------- *)
(* The agents' execute, up to the next suspension point                    *)
(*   an outcome is [c |-> the agent call, log |-> the round-trips]         *)
(* ----------------------------------------------------------------------- *)

\* provider.generate_response(...) begins: one more round-trip in flight
Await(c, slot, model, thinking, log) ==
    [ c   |-> [ c EXCEPT !.st = "await", !.model = model, !.thinking = thinking ],
      log |-> Append(log, [ slot |-> slot, id |-> c.id, agent |-> c.agent, model |-> model,
                            thinking |-> thinking, task |-> c.task,
                            st |-> "inflight" ]) ]

\* what the provider registry answers next, as the caller's choice r:
\* one model: 0 no provider, 1 a provider; the consensus loop at model mi:
\* the next model with a provider, or 0 when no later model has one
Resolutions(agent, mi) ==
    IF agent = "consensus" THEN { 0 } \cup ((mi + 1)..Len(ConsensusModels)) ELSE { 0, 1 }

\* _execute_with_model(model, context, thinking_mode) up to the round-trip
execute_with_model(c, slot, model, thinking, r, log) ==
    IF r = 0
    THEN [ c |-> Raised(c, FailedToExecuteText(model, NotAvailableText(model))),
           log |-> log ]
    ELSE Await(c, slot, model, thinking, log)

\* the bug "unresolvable model is an error": the loop raises at the first
\* model without a provider instead of passing it over
consensus_loop_strict(c, slot, thinking, r, log) ==
    IF c.mi = Len(ConsensusModels)
    THEN [ c |-> Returned(c, analyze_consensus(c.responses)), log |-> log ]
    ELSE IF r # c.mi + 1
    THEN [ c |-> Raised(c, ConsensusFailedText(NotAvailableText(ConsensusModels[c.mi + 1]))),
           log |-> log ]
    ELSE Await([ c EXCEPT !.mi = r ], slot, ConsensusModels[r], thinking, log)

\* the loop of _execute_consensus_workflow from the model after c.mi: models
\* without a provider are passed over; r is the next model that has one
consensus_loop(c, slot, thinking, r, log) ==
    IF r = 0
    THEN [ c |-> Returned([ c EXCEPT !.mi = Len(ConsensusModels) ],
                          analyze_consensus(c.responses)),
           log |-> log ]
    ELSE Await([ c EXCEPT !.mi = r ], slot, ConsensusModels[r], thinking, log)

\* agent.execute(arguments): arguments has the keys `keys`, and the values
\* model and thinking_mode under the keys of those names; id names the call
AgentExecute(id, agent, keys, model, thinking_mode, task, slot, r, log) ==
    LET c == [ NewCall EXCEPT !.id = id, !.agent = agent, !.task = task ]
        m == IF ReadsModelArgument(agent) /\ "model" \in keys
             THEN model ELSE PreferredModel(agent)
        t == IF (ReadsModelArgument(agent) \/ agent = "consensus")
                /\ "thinking_mode" \in keys
             THEN thinking_mode ELSE DefaultThinkingMode(agent)
    IN  IF RequiredKey(agent) \notin keys
        THEN [ c |-> Raised(c, KeyErrorText(RequiredKey(agent))), log |-> log ]
        ELSE IF agent = "consensus"
        THEN consensus_loop([ c EXCEPT !.thinking = t ], slot, t, r, log)
        ELSE execute_with_model(c, slot, m, t, r, log)

\* the round-trip of slot's agent call ends: the index of its log entry
InFlightOf(slot, log) ==
    CHOOSE k \in 1..Len(log) : log[k].slot = slot /\ log[k].st = "inflight"

\* the bug "one retry": a single-model agent whose round-trip failed calls
\* the provider once more before it gives up
AgentResumeRetry(c, slot, ok, r, log) ==
    LET k     == InFlightOf(slot, log)
        log2  == [ log EXCEPT ![k].st = IF ok THEN "ok" ELSE "fail" ]
        tries == Cardinality({ h \in 1..Len(log) : log[h].id = c.id })
    IN  IF c.agent = "consensus"
        THEN IF ok
             THEN consensus_loop(
                      [ c EXCEPT !.responses =
                            Append(@, [ model |-> ConsensusModels[c.mi],
                                        response |->
                                            ResponseContent(c.id, ConsensusModels[c.mi]) ]) ],
                      slot, c.thinking, r, log2)
             ELSE [ c |-> Raised(c, ConsensusFailedText(ProviderFailure)), log |-> log2 ]
        ELSE IF ok
             THEN [ c |-> Returned(c, ResponseContent(c.id, c.model)), log |-> log2 ]
             ELSE IF tries < 2
             THEN Await(c, slot, c.model, c.thinking, log2)
             ELSE [ c |-> Raised(c, FailedToExecuteText(c.model, ProviderFailure)),
                    log |-> log2 ]

\* generate_response returns (ok) or raises, and the agent runs on to its
\* next suspension point, return or exception
AgentResume(c, slot, ok, r, log) ==
    LET k    == InFlightOf(slot, log)
        log2 == [ log EXCEPT ![k].st = IF ok THEN "ok" ELSE "fail" ]
    IN  IF c.agent = "consensus"
        THEN IF ok
             THEN consensus_loop(
                      [ c EXCEPT !.responses =
                            Append(@, [ model |-> ConsensusModels[c.mi],
                                        response |->
                                            ResponseContent(c.id, ConsensusModels[c.mi]) ]) ],
                      slot, c.thinking, r, log2)
             ELSE [ c |-> Raised(c, ConsensusFailedText(ProviderFailure)), log |-> log2 ]
        ELSE IF ok
             THEN [ c |-> Returned(c, ResponseContent(c.id, c.model)), log |-> log2 ]
             ELSE [ c |-> Raised(c, FailedToExecuteText(c.model, ProviderFailure)),
                    log |-> log2 ]

(* ----------------------------------------------------------------------- *)
(* _execute_single_task and the step helpers, up to the suspension point   *)
(* ----------------------------------------------------------------------- *)

\* the keys _execute_single_task adds for the agent
AgentSpecificKeys(agent_name) ==
    CASE agent_name = "procedural_puzzle"  -> { "theme", "difficulty", "variations" }
      [] agent_name = "dynamic_difficulty" -> { "player_data", "current_difficulty", "metrics" }
      [] agent_name = "narrative"          -> { "theme", "tone", "length" }
      [] agent_name = "asset_optimization" -> { "assets", "target_size", "requirements" }
      [] OTHER                             -> { }

\* the bug "agent field ignored": the lookup key is always the task's type
AgentNameTypeOnly(task) == task.type

\* task.get("agent", task_type)
AgentName(task) == IF task.agent # None THEN task.agent ELSE task.type

\* task.get("thinking_mode", "medium")
TaskThinkingMode(task) ==
    IF task.thinking_mode # None THEN task.thinking_mode ELSE "medium"

\* the bug "fallback agent": a name outside self.agents is served by the
\* content agent instead of raising
execute_single_task_fallback(i, r, log) ==
    LET task       == tasks[i]
        agent_name == IF AgentName(task) \in OrchestratorAgents
                      THEN AgentName(task) ELSE "content"
        c          == [ NewCall EXCEPT !.task = i ]
    IN  IF task.prompt = None
        THEN [ c |-> Raised([ c EXCEPT !.agent = agent_name ], KeyErrorText("prompt")),
               log |-> log ]
        ELSE AgentExecute("task " \o ToString(i), agent_name,
                          PromptKeys \cup AgentSpecificKeys(agent_name),
                          select_model(agent_name, model_strategy),
                          TaskThinkingMode(task), i, i, r, log)

\* _execute_single_task(task, context, model_strategy), task being tasks[i]
execute_single_task(i, r, log) ==
    LET task       == tasks[i]
        agent_name == AgentName(task)
        c          == [ NewCall EXCEPT !.task = i ]
    IN  IF agent_name \notin OrchestratorAgents
        THEN [ c |-> Raised(c, UnknownAgentText(agent_name)), log |-> log ]
        ELSE IF task.prompt = None
        THEN [ c |-> Raised([ c EXCEPT !.agent = agent_name ], KeyErrorText("prompt")),
               log |-> log ]
        ELSE AgentExecute("task " \o ToString(i), agent_name, PromptKeys \cup AgentSpecificKeys(agent_name),
                          select_model(agent_name, model_strategy),
                          TaskThinkingMode(task), i, i, r, log)

\* the bug "last task first": the tasks of a type are taken from the end of
\* the list, so a step runs the last task of its type and the
\* implementation step runs its tasks in reverse
MatchingLastFirst(type) ==
    LET RECURSIVE From(_)
        From(i) == IF i < 1 THEN << >>
                   ELSE IF tasks[i].type = type THEN << i >> \o From(i - 1)
                   ELSE From(i - 1)
    IN  From(Len(tasks))

\* the indices of the tasks with task.get("type") == type, in list order
Matching(type) ==
    LET RECURSIVE From(_)
        From(i) == IF i > Len(tasks) THEN << >>
                   ELSE IF tasks[i].type = type THEN << i >> \o From(i + 1)
                   ELSE From(i + 1)
    IN  From(1)

\* the bug "first task only": the `if` looks at tasks[0] instead of any task
IncludedFirstTaskOnly(d) ==
    CASE d.include = "task"   -> Len(tasks) > 0 /\ tasks[1].type = d.type
      [] d.include = "always" -> TRUE
      [] OTHER                -> d.include \in context

\* the `if` in front of a step of a named workflow
Included(d) ==
    CASE d.include = "task"   -> \E i \in 1..Len(tasks) : tasks[i].type = d.type
      [] d.include = "always" -> TRUE
      [] OTHER                -> d.include \in context

\* the bug "flag read by a named workflow": with parallel set the workflow
\* goes to the last step whose `if` holds instead of the first
NextStepFlagAware(k) ==
    LET table == StepTable(workflow_type)
        later == { j \in k..Len(table) : Included(table[j]) }
    IN  IF later = { } THEN Len(table) + 1
        ELSE IF parallel THEN CHOOSE j \in later : \A h \in later : j >= h
        ELSE CHOOSE j \in later : \A h \in later : j <= h

\* the first step at or after k whose `if` holds; past the table when none
NextStep(k) ==
    LET table == StepTable(workflow_type)
        later == { j \in k..Len(table) : Included(table[j]) }
    IN  IF later = { } THEN Len(table) + 1
        ELSE CHOOSE j \in later : \A h \in later : j <= h

\* the model a step helper hands to the agent
StepModel(d) ==
    IF d.model = "select" THEN select_model(d.agent, model_strategy) ELSE d.model

\* a step helper (_execute_architecture_step ... _create_implementation_plan)
\* for step d, at the n-th task of the step's type
step_helper(d, n, r, log) ==
    LET found == Matching(d.type)
    IN  IF found = << >>
        THEN [ c |-> Raised(NewCall, StopIterationText), log |-> log ]
        ELSE IF d.prompt /\ tasks[found[n]].prompt = None
        THEN [ c |-> Raised([ NewCall EXCEPT !.task = found[n] ], KeyErrorText("prompt")),
               log |-> log ]
        ELSE AgentExecute(d.name \o " " \o ToString(n), d.agent, d.keys, StepModel(d),
                          d.thinking, found[n], 1, r, log)

(* ----------------------------------------------------------------------- *)
(* _generate_workflow_report                                               *)
(* ----------------------------------------------------------------------- *)

\* the bug "status follows the steps": a report with an error step says so
\* and counts only the steps that are no errors
generate_workflow_report_checked(workflow_name, steps) ==
    LET good == { i \in 1..Len(steps) : ~IsErrorText(steps[i][2]) }
    IN  [ title         |-> << "# ", workflow_name, " Workflow Report" >>,
          generated     |-> "timestamp",
          total_steps   |-> Cardinality(good),
          sections      |-> [ i \in 1..Len(steps) |->
                                [ heading |-> << "## Step ", ToString(i), ": ", steps[i][1] >>,
                                  body    |-> steps[i][2] ] ],
          summary       |-> [ workflow_type   |-> workflow_name,
                              steps_completed |-> Cardinality(good),
                              status          |-> IF Cardinality(good) = Len(steps)
                                                  THEN "Completed Successfully"
                                                  ELSE "Completed With Errors" ],
          recommendations |->
              << "1. Review each step's output for quality and completeness",
                 "2. Implement recommendations in order of priority",
                 "3. Test changes thoroughly before deployment",
                 "4. Monitor performance and user feedback" >> ]

generate_workflow_report(workflow_name, steps) ==
    [ title         |-> << "# ", workflow_name, " Workflow Report" >>,
      generated     |-> "timestamp",
      total_steps   |-> Len(steps),
      sections      |-> [ i \in 1..Len(steps) |->
                            [ heading |-> << "## Step ", ToString(i), ": ", steps[i][1] >>,
                              body    |-> steps[i][2] ] ],
      summary       |-> [ workflow_type   |-> workflow_name,
                          steps_completed |-> Len(steps),
                          status          |-> "Completed Successfully" ],
      recommendations |->
          << "1. Review each step's output for quality and completeness",
             "2. Implement recommendations in order of priority",
             "3. Test changes thoroughly before deployment",
             "4. Monitor performance and user feedback" >> ]

\* execute returns [TextContent(type="text", text=result)]
ReturnReport(report) == [ kind |-> "report", report |-> report ]

\* an exception leaves execute
RaiseError(e) == [ kind |-> "raised", error |-> e ]

(* ----------------------------------------------------------------------- *)
(* WorkflowOrchestrator.execute                                            *)
(* ----------------------------------------------------------------------- *)

Init ==
    /\ workflow_type \in WorkflowTypes
    /\ tasks \in TaskLists(workflow_type)
    /\ context \in Contexts(workflow_type)
    /\ parallel \in BOOLEAN
    /\ model_strategy \in RunStrategies
    /\ pc = "init"
    /\ si = 1
    /\ ti = 0
    /\ acc = << >>
    /\ co = << >>
    /\ calls = << >>
    /\ workflow_steps = << >>
    /\ result = NoResult
    /\ sel = NoSelect
    /\ room = NoRoom
    /\ phase = NoPhase

\* the bug "flag ignored": the custom workflow always gathers
UseGatherAlways == workflow_type = "custom"

\* `if parallel:` of _execute_custom_workflow; the named workflows take the
\* flag and never read it
UseGather == workflow_type = "custom" /\ parallel

\* the bug "custom as the default branch": a type that is none of the five
\* runs the custom workflow instead of raising
ExecuteDefaultCustom ==
    /\ pc = "init"
    /\ pc' = "run"
    /\ co' = IF workflow_type \in NamedWorkflowTypes
             THEN << NewCall >>
             ELSE [ i \in 1..Len(tasks) |-> NewCall ]
    /\ UNCHANGED << inputs, si, ti, acc, calls, workflow_steps, result, sel, room, phase >>

\* execute: the dispatch on workflow_type
Execute ==
    /\ pc = "init"
    /\ IF workflow_type \in KnownWorkflowTypes
       THEN /\ pc' = "run"
            /\ co' = IF workflow_type = "custom"
                     THEN [ i \in 1..Len(tasks) |-> NewCall ]
                     ELSE << NewCall >>
            /\ result' = result
       ELSE /\ pc' = "done"
            /\ co' = co
            /\ result' = RaiseError(UnknownWorkflowText(workflow_type))
    /\ UNCHANGED << inputs, si, ti, acc, calls, workflow_steps, sel, room, phase >>

\* a named workflow reaches its next included step and calls the step's helper
NamedStepBegin(r) ==
    /\ pc = "run"
    /\ workflow_type \in NamedWorkflowTypes
    /\ co[1].st = "new"
    /\ NextStep(si) <= Len(StepTable(workflow_type))
    /\ LET j == NextStep(si)
           d == StepTable(workflow_type)[j]
       IN  /\ r \in Resolutions(d.agent, 0)
           /\ LET out == step_helper(d, ti + 1, r, calls)
              IN  /\ co' = << out.c >>
                  /\ calls' = out.log
           /\ si' = j
    /\ UNCHANGED << inputs, pc, ti, acc, workflow_steps, result, sel, room, phase >>

\* the helper's agent call is over: its text is kept, or its exception leaves
\* the workflow and execute
NamedStepEnd ==
    /\ pc = "run"
    /\ workflow_type \in NamedWorkflowTypes
    /\ co[1].st \in { "ret", "exc" }
    /\ LET d     == StepTable(workflow_type)[si]
           acc2  == Append(acc, co[1].val)
           count == IF d.each THEN Len(Matching(d.type)) ELSE 1
       IN  IF co[1].st = "exc"
           THEN /\ pc' = "done"
                /\ result' = RaiseError(co[1].val)
                /\ UNCHANGED << si, ti, acc, workflow_steps >>
           ELSE IF ti + 1 < count
           THEN /\ ti' = ti + 1
                /\ acc' = acc2
                /\ UNCHANGED << pc, si, workflow_steps, result >>
           ELSE /\ workflow_steps' =
                       Append(workflow_steps,
                              << d.name, IF d.each THEN JoinBlank(acc2) ELSE co[1].val >>)
                /\ si' = si + 1
                /\ ti' = 0
                /\ acc' = << >>
                /\ UNCHANGED << pc, result >>
    /\ co' = << NewCall >>
    /\ UNCHANGED << inputs, calls, sel, room, phase >>

\* no included step is left: the report is generated and returned
NamedReport ==
    /\ pc = "run"
    /\ workflow_type \in NamedWorkflowTypes
    /\ co[1].st = "new"
    /\ NextStep(si) > Len(StepTable(workflow_type))
    /\ pc' = "done"
    /\ result' = ReturnReport(
                     generate_workflow_report(WorkflowName(workflow_type), workflow_steps))
    /\ UNCHANGED << inputs, si, ti, acc, co, calls, workflow_steps, sel, room, phase >>

\* task.get("name", "Task") of the sequential loop
SequentialStepName(i) == IF tasks[i].name # None THEN tasks[i].name ELSE "Task"

\* tasks[i].get("name", f"Task {i+1}") of the gather loop, i counting from 0
ParallelStepName(i) ==
    IF tasks[i].name # None THEN tasks[i].name ELSE "Task " \o ToString(i)

\* the step text of a finished agent call in the custom workflow
CustomStepText(c) == IF c.st = "exc" THEN ErrorText(c.val) ELSE c.val

\* the bug "defaults written back": the loop stores the default
\* thinking_mode in the caller's task before it runs the task
CustomStepBeginWritesTask(r) ==
    /\ pc = "run"
    /\ workflow_type = "custom"
    /\ ~UseGather
    /\ si <= Len(tasks)
    /\ co[si].st = "new"
    /\ r \in Resolutions(AgentName(tasks[si]), 0)
    /\ LET out == execute_single_task(si, r, calls)
       IN  /\ co' = [ co EXCEPT ![si] = out.c ]
           /\ calls' = out.log
    /\ tasks' = [ tasks EXCEPT ![si].thinking_mode = TaskThinkingMode(tasks[si]) ]
    /\ UNCHANGED << workflow_type, context, parallel, model_strategy, pc, si, ti, acc,
                    workflow_steps, result, sel, room, phase >>

\* custom, sequential: the loop body up to `await self._execute_single_task`
CustomStepBegin(r) ==
    /\ pc = "run"
    /\ workflow_type = "custom"
    /\ ~UseGather
    /\ si <= Len(tasks)
    /\ co[si].st = "new"
    /\ r \in Resolutions(AgentName(tasks[si]), 0)
    /\ LET out == execute_single_task(si, r, calls)
       IN  /\ co' = [ co EXCEPT ![si] = out.c ]
           /\ calls' = out.log
    /\ UNCHANGED << inputs, pc, si, ti, acc, workflow_steps, result, sel, room, phase >>

\* the bug "retry until it works": a task that failed before any round-trip
\* (agent not in the registry, no prompt, no provider) is tried again
\* instead of being recorded as an error
CustomStepEndRetry ==
    /\ pc = "run"
    /\ workflow_type = "custom"
    /\ ~UseGather
    /\ si <= Len(tasks)
    /\ co[si].st \in { "ret", "exc" }
    /\ IF co[si].st = "exc" /\ \A k \in 1..Len(calls) : calls[k].slot # si
       THEN /\ co' = [ co EXCEPT ![si] = NewCall ]
            /\ UNCHANGED << si, workflow_steps >>
       ELSE /\ workflow_steps' =
                   Append(workflow_steps,
                          << SequentialStepName(si), CustomStepText(co[si]) >>)
            /\ si' = si + 1
            /\ co' = co
    /\ UNCHANGED << inputs, pc, ti, acc, calls, result, sel, room, phase >>

\* the bug "no try/except": as in the named workflows, the exception of a
\* task leaves the loop and execute
CustomStepEndAbort ==
    /\ pc = "run"
    /\ workflow_type = "custom"
    /\ ~UseGather
    /\ si <= Len(tasks)
    /\ co[si].st \in { "ret", "exc" }
    /\ IF co[si].st = "exc"
       THEN /\ pc' = "done"
            /\ result' = RaiseError(co[si].val)
            /\ UNCHANGED << si, workflow_steps >>
       ELSE /\ workflow_steps' =
                   Append(workflow_steps, << SequentialStepName(si), co[si].val >>)
            /\ si' = si + 1
            /\ UNCHANGED << pc, result >>
    /\ UNCHANGED << inputs, ti, acc, co, calls, sel, room, phase >>

\* custom, sequential: the append of the try or of the except branch
CustomStepEnd ==
    /\ pc = "run"
    /\ workflow_type = "custom"
    /\ ~UseGather
    /\ si <= Len(tasks)
    /\ co[si].st \in { "ret", "exc" }
    /\ workflow_steps' =
           Append(workflow_steps, << SequentialStepName(si), CustomStepText(co[si]) >>)
    /\ si' = si + 1
    /\ UNCHANGED << inputs, pc, ti, acc, co, calls, result, sel, room, phase >>

\* custom, sequential: the loop is over
CustomReport ==
    /\ pc = "run"
    /\ workflow_type = "custom"
    /\ ~UseGather
    /\ si > Len(tasks)
    /\ pc' = "done"
    /\ result' = ReturnReport(generate_workflow_report("Custom Workflow", workflow_steps))
    /\ UNCHANGED << inputs, si, ti, acc, co, calls, workflow_steps, sel, room, phase >>

\* custom, parallel: asyncio.gather starts the coroutines in list order; each
\* runs to its first suspension point
BranchBegin(i, r) ==
    /\ pc = "run"
    /\ UseGather
    /\ i \in 1..Len(tasks)
    /\ co[i].st = "new"
    /\ \A h \in 1..(i - 1) : co[h].st # "new"
    /\ r \in Resolutions(AgentName(tasks[i]), 0)
    /\ LET out == execute_single_task(i, r, calls)
       IN  /\ co' = [ co EXCEPT ![i] = out.c ]
           /\ calls' = out.log
    /\ UNCHANGED << inputs, pc, si, ti, acc, workflow_steps, result, sel, room, phase >>

\* the bug "gather that does not wait": the results are collected as soon as
\* every branch was started; a branch still waiting for its provider is
\* reported as an error
GatherDoneNoWait ==
    /\ pc = "run"
    /\ UseGather
    /\ \A i \in 1..Len(tasks) : co[i].st # "new"
    /\ workflow_steps' =
           [ i \in 1..Len(tasks) |->
               << ParallelStepName(i),
                  IF co[i].st = "await" THEN ErrorText(<< "timed out" >>)
                  ELSE CustomStepText(co[i]) >> ]
    /\ pc' = "done"
    /\ result' = ReturnReport(generate_workflow_report("Custom Workflow", workflow_steps'))
    /\ UNCHANGED << inputs, si, ti, acc, co, calls, sel, room, phase >>

\* the bug "results in the wrong order": result i is paired with the task
\* at the mirrored position
GatherDoneReversed ==
    /\ pc = "run"
    /\ UseGather
    /\ \A i \in 1..Len(tasks) : co[i].st \in { "ret", "exc" }
    /\ workflow_steps' =
           [ i \in 1..Len(tasks) |->
               << ParallelStepName(i), CustomStepText(co[Len(tasks) + 1 - i]) >> ]
    /\ pc' = "done"
    /\ result' = ReturnReport(generate_workflow_report("Custom Workflow", workflow_steps'))
    /\ UNCHANGED << inputs, si, ti, acc, co, calls, sel, room, phase >>

\* custom, parallel: gather(return_exceptions=True) returns the results in
\* list order; the loop over enumerate(results) and the report
GatherDone ==
    /\ pc = "run"
    /\ UseGather
    /\ \A i \in 1..Len(tasks) : co[i].st \in { "ret", "exc" }
    /\ workflow_steps' =
           [ i \in 1..Len(tasks) |-> << ParallelStepName(i), CustomStepText(co[i]) >> ]
    /\ pc' = "done"
    /\ result' = ReturnReport(generate_workflow_report("Custom Workflow", workflow_steps'))
    /\ UNCHANGED << inputs, si, ti, acc, co, calls, sel, room, phase >>

\* a provider round-trip ends, with content (ok) or an exception, and the
\* agent call it belongs to runs on
ProviderReturn(slot, ok, r) ==
    /\ pc = "run"
    /\ slot \in 1..Len(co)
    /\ co[slot].st = "await"
    /\ r \in Resolutions(co[slot].agent, co[slot].mi)
    /\ co[slot].agent # "consensus" => r = 1
    /\ LET out == AgentResume(co[slot], slot, ok, r, calls)
       IN  /\ co' = [ co EXCEPT ![slot] = out.c ]
           /\ calls' = out.log
    /\ UNCHANGED << inputs, pc, si, ti, acc, workflow_steps, result, sel, room, phase >>

Next ==
    \/ Execute
    \/ \E r \in 0..Len(ConsensusModels) : NamedStepBegin(r)
    \/ NamedStepEnd
    \/ NamedReport
    \/ \E r \in 0..Len(ConsensusModels) : CustomStepBegin(r)
    \/ CustomStepEnd
    \/ CustomReport
    \/ \E i \in 1..Len(tasks), r \in 0..Len(ConsensusModels) : BranchBegin(i, r)
    \/ GatherDone
    \/ \E slot \in 1..Len(co), ok \in BOOLEAN, r \in 0..Len(ConsensusModels) :
           ProviderReturn(slot, ok, r)

Spec == Init /\ [][Next]_vars

(* ----------------------------------------------------------------------- *)
(* _select_model on its own: two calls with the same arguments             *)
(* ----------------------------------------------------------------------- *)

\* the agent types _select_model is called with: the keys of self.agents,
\* the expanded agents' names and a name that is no agent
SelectAgentTypes ==
    OrchestratorAgents
    \cup { "story_weaver", "psychology", "game_expert", "pop_culture", "ux_ui",
           "creative_features", "no_such_agent" }

\* the four strategies and two values that are none of them
SelectStrategies == Strategies \cup { "fastest", None }

SelectInit ==
    /\ sel \in [ stage : { "args" }, agent_type : SelectAgentTypes,
                 strategy : SelectStrategies, first : { None }, second : { None } ]
    /\ workflow_type = None
    /\ tasks = << >>
    /\ context = { }
    /\ parallel = FALSE
    /\ model_strategy = "auto"
    /\ pc = "off"
    /\ si = 1
    /\ ti = 0
    /\ acc = << >>
    /\ co = << >>
    /\ calls = << >>
    /\ workflow_steps = << >>
    /\ result = NoResult
    /\ room = NoRoom
    /\ phase = NoPhase

SelectFirst ==
    /\ sel.stage = "args"
    /\ sel' = [ sel EXCEPT !.stage = "first",
                           !.first = select_model(sel.agent_type, sel.strategy) ]
    /\ UNCHANGED << inputs, pc, si, ti, acc, co, calls, workflow_steps, result,
                    room, phase >>

SelectSecond ==
    /\ sel.stage = "first"
    /\ sel' = [ sel EXCEPT !.stage = "second",
                           !.second = select_model(sel.agent_type, sel.strategy) ]
    /\ UNCHANGED << inputs, pc, si, ti, acc, co, calls, workflow_steps, result,
                    room, phase >>

SelectNext == SelectFirst \/ SelectSecond

SelectSpec == SelectInit /\ [][SelectNext]_vars

(* ----------------------------------------------------------------------- *)
(* Properties of _select_model                                             *)
(* ----------------------------------------------------------------------- *)

Selected == sel.stage \in { "first", "second" }

\* the base model of each known agent type, as the reference table lists it
ReferenceBase ==
    [ architecture |-> "gemini-pro", implementation |-> "gemini-flash",
      optimization |-> "ollama", content |-> "claude-haiku",
      procedural_puzzle |-> "gemini-pro", dynamic_difficulty |-> "gemini-pro",
      narrative |-> "claude-haiku", asset_optimization |-> "ollama" ]

\* the base models a strategy's table does not map
ReferenceUnmapped(strategy) ==
    CASE strategy = "cost_optimized"        -> { "gemini-flash", "ollama" }
      [] strategy = "performance_optimized" -> { "gemini-pro", "claude-haiku" }
      [] strategy = "balanced"              -> { "gemini-flash", "claude-haiku" }
      [] OTHER                              ->
             { "gemini-pro", "gemini-flash", "claude-haiku", "ollama" }

ModelIds == { "gemini-pro", "gemini-flash", "claude-haiku", "ollama" }

Done == pc = "done"

Reported == result.kind = "report"

\* the (step name, step text) pairs read back from the returned report
ReportSteps ==
    [ i \in 1..Len(result.report.sections) |->
        << result.report.sections[i].heading[4], result.report.sections[i].body >> ]

Names(steps) == [ i \in 1..Len(steps) |-> steps[i][1] ]

IsPrefix(s, t) == Len(s) <= Len(t) /\ \A i \in 1..Len(s) : s[i] = t[i]

SequentialRun ==
    \/ workflow_type \in NamedWorkflowTypes
    \/ workflow_type = "custom" /\ parallel = FALSE

ParallelRun == workflow_type = "custom" /\ parallel = TRUE

\* the round-trips made for task i of a custom run, in starting order
TaskCalls(i) == SelectSeq(calls, LAMBDA e : e.slot = i)

\* task i of a custom run failed: before any round-trip (agent not in the
\* registry, no prompt, no provider for the model) or in a round-trip
TaskFailed(i) ==
    \/ AgentName(tasks[i]) \notin OrchestratorAgents
    \/ tasks[i].prompt = None
    \/ \E k \in 1..Len(TaskCalls(i)) : TaskCalls(i)[k].st = "fail"
    \/ AgentName(tasks[i]) # "consensus" /\ TaskCalls(i) = << >>

\* the text task i's agent returns when it does not fail, from the provider's
\* answers to the task's round-trips: the answer itself, or for the
\* consensus agent the rendering of its answers
TaskSuccessText(i) ==
    LET mine == TaskCalls(i)
        id   == "task " \o ToString(i)
    IN  IF AgentName(tasks[i]) = "consensus"
        THEN analyze_consensus(
                 [ k \in 1..Len(mine) |->
                     [ model |-> mine[k].model,
                       response |-> ResponseContent(id, mine[k].model) ] ])
        ELSE ResponseContent(id, mine[1].model)

\* step i of a custom report carries the outcome of task i
CarriesOutcome(i) ==
    LET text == ReportSteps[i][2]
    IN  IF TaskFailed(i)
        THEN /\ IsErrorText(text)
             /\ AgentName(tasks[i]) \notin OrchestratorAgents
                    => text = ErrorText(UnknownAgentText(AgentName(tasks[i])))
        ELSE text = TaskSuccessText(i)

\* C1 (the claim as stated; the named workflows break it): a run of one of
\* the five workflow types always ends with a report, whatever steps failed
\* (provider failure, missing field, missing task of the step's type); each
\* failed step stands in the report as an "Error: ..." text, and only an
\* unknown workflow type makes execute raise.
C1_EveryRunReports ==
    (Done /\ workflow_type \in KnownWorkflowTypes)
    => /\ Reported
       /\ workflow_type = "custom" => Len(ReportSteps) = Len(tasks)
       /\ workflow_type \in NamedWorkflowTypes
              => Len(ReportSteps) =
                     Cardinality({ j \in 1..Len(StepTable(workflow_type)) :
                                     Included(StepTable(workflow_type)[j]) })

\* C2: custom workflow, parallel=true, n tasks: however the round-trips end
\* and in whatever order, the report has n steps and step i carries the
\* outcome of task i: the agent's text when task i succeeded, an
\* "Error: ..." text when it failed; the order is the task list's.
C2_ParallelIndexCorrespondence ==
    (Done /\ ParallelRun)
    => /\ Reported
       /\ Len(ReportSteps) = Len(tasks)
       /\ result.report.total_steps = Len(tasks)
       /\ \A i \in 1..Len(tasks) : CarriesOutcome(i)

\* a parallel run of three tasks is over: the round-trip of the second
\* failed, the first and the third carry their answers
C2_Witness ==
    /\ Done /\ ParallelRun /\ Reported
    /\ Len(tasks) = 3
    /\ \E k \in 1..Len(calls) : calls[k].slot = 2 /\ calls[k].st = "fail"
    /\ IsErrorText(ReportSteps[2][2])
    /\ ~TaskFailed(1) /\ ReportSteps[1][2] = TaskSuccessText(1)
    /\ ~TaskFailed(3) /\ ReportSteps[3][2] = TaskSuccessText(3)

\* C3: custom workflow, parallel=false, n tasks: a failing task k gives the
\* step text "Error: <message>", every task is executed whatever failed
\* before it, and the report has n steps, the tasks that did not fail
\* carrying their agent's text.
C3_SequentialIsolation ==
    (Done /\ workflow_type = "custom" /\ parallel = FALSE)
    => /\ Reported
       /\ Len(ReportSteps) = Len(tasks)
       /\ \A i \in 1..Len(tasks) :
              /\ co[i].st \in { "ret", "exc" }
              /\ co[i].st = "exc" <=> TaskFailed(i)
              /\ CarriesOutcome(i)
              /\ co[i].st = "exc" => ReportSteps[i][2] = ErrorText(co[i].val)

\* a sequential run of three tasks is over: the round-trip of the second
\* failed, and the third was still executed and carries its answer
C3_Witness ==
    /\ Done /\ workflow_type = "custom" /\ parallel = FALSE /\ Reported
    /\ Len(tasks) = 3
    /\ \E k \in 1..Len(calls) : calls[k].slot = 2 /\ calls[k].st = "fail"
    /\ IsErrorText(ReportSteps[2][2])
    /\ ~TaskFailed(1) /\ ~IsErrorText(ReportSteps[1][2])
    /\ ~TaskFailed(3) /\ ReportSteps[3][2] = TaskSuccessText(3)

\* C4: in a sequential run (a named workflow, or custom with parallel=false)
\* a round-trip starts only when every earlier one has ended, by success or
\* failure: never two in flight.
C4_OneRoundTripAtATime ==
    SequentialRun
    => /\ \A k \in 1..(Len(calls) - 1) : calls[k].st \in { "ok", "fail" }
       /\ Cardinality({ k \in 1..Len(calls) : calls[k].st = "inflight" }) <= 1

\* a sequential run whose second round-trip is in flight after the first
\* has failed
C4_Witness ==
    /\ SequentialRun
    /\ Len(calls) = 2
    /\ calls[1].st = "fail"
    /\ calls[2].st = "inflight"

\* C5: with a workflow type that is none of the five, execute raises the
\* unknown-workflow-type error at once: no report, no collected step, no
\* agent call and no round-trip, whatever the tasks.
C5_UnknownWorkflowType ==
    (workflow_type \notin KnownWorkflowTypes /\ pc # "init")
    => /\ Done
       /\ result = RaiseError(UnknownWorkflowText(workflow_type))
       /\ calls = << >>
       /\ workflow_steps = << >>
       /\ \A i \in 1..Len(co) : co[i].st = "new"

\* execute has raised for the type "nonsense" and a task list that is not empty
C5_Witness ==
    /\ Done
    /\ workflow_type = "nonsense"
    /\ Len(tasks) > 0
    /\ result.kind = "raised"

\* C8 (the claim as stated; the code breaks it): the model of every provider
\* round-trip is the one _select_model gives for the agent type of the step
\* and the run's model_strategy.
C8_ProviderGetsSelectedModel ==
    \A k \in 1..Len(calls) :
        calls[k].model = select_model(calls[k].agent, model_strategy)

\* the step names the puzzle_generation rule gives for the context
PuzzleStepNames ==
    << "Theme Analysis", "Puzzle Generation" >>
    \o (IF "difficulty_adjustment" \in context THEN << "Difficulty Balancing" >> ELSE << >>)
    \o (IF "narrative" \in context THEN << "Narrative Integration" >> ELSE << >>)

\* C9 (the claim as stated; the code breaks it): every puzzle_generation run
\* contains "Theme Analysis" and "Puzzle Generation", "Difficulty Balancing"
\* iff the context has the key difficulty_adjustment, and "Narrative
\* Integration" iff it has the key narrative, in this order; exactly the
\* first two with an empty context.
C9_PuzzleStepsByContext ==
    (Done /\ workflow_type = "puzzle_generation")
    => /\ Reported
       /\ Names(ReportSteps) = PuzzleStepNames

HasTaskOfType(type) == \E i \in 1..Len(tasks) : tasks[i].type = type

\* the step names the game_development rule gives for the task list
GameStepNames ==
    (IF HasTaskOfType("architecture") THEN << "Architecture Planning" >> ELSE << >>)
    \o (IF HasTaskOfType("implementation") THEN << "Implementation" >> ELSE << >>)
    \o (IF HasTaskOfType("content") THEN << "Content Creation" >> ELSE << >>)
    \o (IF HasTaskOfType("optimization") THEN << "Performance Optimization" >> ELSE << >>)

LookupKey(i) == IF tasks[i].agent # None THEN tasks[i].agent ELSE tasks[i].type

\* C11: custom workflow, both modes: every task of the list is executed as
\* its own step (the report has as many steps as there are tasks), and the
\* agent of a task is the one registered under the task's agent field when
\* the task has one, under its type otherwise: every round-trip made for
\* task i is made by that agent, and a key that names no agent of
\* self.agents gives the unknown-agent error naming that key.
C11_CustomTaskPerStepAgentLookup ==
    workflow_type = "custom"
    => /\ \A k \in 1..Len(calls) : calls[k].agent = LookupKey(calls[k].slot)
       /\ \A i \in 1..Len(co) :
              co[i].st # "new"
              => IF LookupKey(i) \in OrchestratorAgents
                 THEN co[i].agent = LookupKey(i)
                 ELSE /\ co[i].st = "exc"
                      /\ co[i].val = << "Unknown agent: ", LookupKey(i) >>
       /\ Done => /\ Reported
                  /\ Len(ReportSteps) = Len(tasks)
                  /\ result.report.total_steps = Len(tasks)
                  /\ \A i \in 1..Len(tasks) : co[i].st \in { "ret", "exc" }

\* a custom report of two steps: one task names its agent in the agent field
\* (its type is no agent) and was answered by that agent, the other task has
\* no agent field and was answered by the agent of its type
C11_Witness ==
    /\ Done /\ workflow_type = "custom" /\ Reported
    /\ Len(tasks) = 2
    /\ tasks[1].agent = "implementation" /\ tasks[1].type = "review"
    /\ tasks[2].agent = None /\ tasks[2].type = "architecture"
    /\ \E k \in 1..Len(calls) :
           calls[k].slot = 1 /\ calls[k].agent = "implementation" /\ calls[k].st = "ok"
    /\ \E k \in 1..Len(calls) :
           calls[k].slot = 2 /\ calls[k].agent = "architecture" /\ calls[k].st = "ok"
    /\ Len(ReportSteps) = 2

\* task i names an agent that self.agents does not hold
UnknownAgentTask(i) == LookupKey(i) \notin OrchestratorAgents

\* C12: custom workflow, both modes: a task whose agent name is not in
\* self.agents fails its own step only: no round-trip is ever made for it,
\* its step is the text "Error: Unknown agent: <name>", every other task is
\* executed and its step carries its own outcome, and the run returns a
\* report with a step for every task.
C12_UnknownAgentIsolated ==
    workflow_type = "custom"
    => /\ \A k \in 1..Len(calls) : ~UnknownAgentTask(calls[k].slot)
       /\ Done
              => /\ Reported
                 /\ Len(ReportSteps) = Len(tasks)
                 /\ \A i \in 1..Len(tasks) :
                        IF UnknownAgentTask(i)
                        THEN ReportSteps[i][2]
                                 = << "Error: ", "Unknown agent: ", LookupKey(i) >>
                        ELSE /\ co[i].st \in { "ret", "exc" }
                             /\ CarriesOutcome(i)

\* a sequential custom report of three steps: the first task names no agent
\* of self.agents and stands as an error, the two tasks after it were
\* answered
C12_Witness ==
    /\ Done /\ workflow_type = "custom" /\ parallel = FALSE /\ Reported
    /\ Len(tasks) = 3
    /\ UnknownAgentTask(1)
    /\ IsErrorText(ReportSteps[1][2])
    /\ ~TaskFailed(2) /\ ReportSteps[2][2] = TaskSuccessText(2)
    /\ ~TaskFailed(3) /\ ReportSteps[3][2] = TaskSuccessText(3)

(* ----------------------------------------------------------------------- *)
(* Custom workflows over tasks with agent-specific fields                  *)
(* ----------------------------------------------------------------------- *)

\* the longest task list of these runs
MaxFieldTasks == 2

\* a task dictionary with the keys player_data and assets next to the keys
\* of Task; _execute_single_task reads them with task.get(key, default)
FieldTask(type, prompt, player_data, assets) ==
    Task(type, None, prompt, None, None)
    @@ [ player_data |-> player_data, assets |-> assets ]

\* tasks for the agents that read player_data and assets, with and without
\* these keys and with and without a prompt, and two prompt-reading tasks
FieldTaskPool ==
    { FieldTask("dynamic_difficulty", None, "sessions", None),
      FieldTask("dynamic_difficulty", "adjust", None, None),
      FieldTask("asset_optimization", "shrink", None, "sprites"),
      FieldTask("asset_optimization", "shrink", None, None),
      FieldTask("content", None, None, None),
      FieldTask("architecture", "design", None, None) }

FieldTaskLists == UNION { [1..n -> FieldTaskPool] : n \in 0..MaxFieldTasks }

FieldInit ==
    /\ workflow_type = "custom"
    /\ tasks \in FieldTaskLists
    /\ context = { }
    /\ parallel \in BOOLEAN
    /\ model_strategy = "auto"
    /\ pc = "init"
    /\ si = 1
    /\ ti = 0
    /\ acc = << >>
    /\ co = << >>
    /\ calls = << >>
    /\ workflow_steps = << >>
    /\ result = NoResult
    /\ sel = NoSelect
    /\ room = NoRoom
    /\ phase = NoPhase

FieldNext ==
    \/ Execute
    \/ \E r \in 0..1 : CustomStepBegin(r)
    \/ CustomStepEnd
    \/ CustomReport
    \/ \E i \in 1..Len(tasks), r \in 0..1 : BranchBegin(i, r)
    \/ GatherDone
    \/ \E slot \in 1..Len(co), ok \in BOOLEAN : ProviderReturn(slot, ok, 1)

FieldSpec == FieldInit /\ [][FieldNext]_vars

\* the value a task has under a key; None when the key is absent
FieldOf(task, key) ==
    CASE key = "prompt"      -> task.prompt
      [] key = "player_data" -> task.player_data
      [] key = "assets"      -> task.assets

\* task i lacks the field its agent's execute requires
LacksRequired(i) == FieldOf(tasks[i], RequiredKey(LookupKey(i))) = None

\* the step text of a missing field: "Error: " and str(KeyError(key))
IsMissingFieldError(text) ==
    /\ Len(text) = 4
    /\ text[1] = "Error: " /\ text[2] = "'" /\ text[4] = "'"

\* C13 (the claim as stated; the code breaks it): in a custom workflow a task
\* that lacks the field its agent requires (prompt; player_data for
\* dynamic_difficulty; assets for asset_optimization) fails before any
\* round-trip is made for it and stands in the report as an error text, the
\* run going on; a task that has every field its agent requires does not
\* fail with a missing-field error.
C13_MissingFieldIsolated ==
    workflow_type = "custom"
    => /\ \A k \in 1..Len(calls) : ~LacksRequired(calls[k].slot)
       /\ Done
              => /\ Reported
                 /\ Len(ReportSteps) = Len(tasks)
                 /\ \A i \in 1..Len(tasks) :
                        IF LacksRequired(i)
                        THEN IsErrorText(ReportSteps[i][2])
                        ELSE ~IsMissingFieldError(ReportSteps[i][2])

(* ----------------------------------------------------------------------- *)
(* Properties of the agents                                                *)
(* ----------------------------------------------------------------------- *)

\* the round-trips of the agent call named id, in starting order
CallsOf(id) == SelectSeq(calls, LAMBDA e : e.id = id)

\* C14: one call of a single-model agent's execute makes at most one
\* round-trip. When the provider raises, the agent raises "Failed to execute
\* with model <model>: ..." and calls no provider again; when no provider
\* serves the model it raises the same error without a round-trip; when the
\* provider answers, the agent returns the provider's content as it is.
C14_SingleRoundTrip ==
    /\ \A k, h \in 1..Len(calls) :
           (k # h /\ calls[k].id = calls[h].id) => calls[k].agent = "consensus"
    /\ \A s \in 1..Len(co) :
           (co[s].agent # None /\ co[s].agent # "consensus")
           => LET c    == co[s]
                  mine == CallsOf(c.id)
              IN  /\ Len(mine) <= 1
                  /\ c.st = "await" => Len(mine) = 1 /\ mine[1].st = "inflight"
                  /\ c.st = "ret"
                         => /\ Len(mine) = 1
                            /\ mine[1].st = "ok"
                            /\ c.val = ResponseContent(c.id, mine[1].model)
                  /\ (c.st = "exc" /\ Len(mine) = 1)
                         => /\ mine[1].st = "fail"
                            /\ c.val = << "Failed to execute with model ", mine[1].model,
                                          ": ", "provider failure" >>
                  /\ (c.st = "exc" /\ Len(mine) = 0)
                         => \/ c.val = << "'", RequiredKey(c.agent), "'" >>
                            \/ c.val = << "'", "prompt", "'" >>
                            \/ \E m \in ModelIds :
                                   c.val = << "Failed to execute with model ", m, ": ",
                                             "Model ", m, " not available" >>

\* a single-model agent has raised after its one round-trip failed, and an
\* earlier agent call of the run returned its provider's content
C14_Witness ==
    /\ Len(calls) = 2
    /\ calls[1].st = "ok" /\ calls[2].st = "fail"
    /\ calls[1].agent # "consensus" /\ calls[2].agent # "consensus"
    /\ \E s \in 1..Len(co) :
           /\ co[s].st = "exc"
           /\ co[s].id = calls[2].id
           /\ co[s].val = FailedToExecuteText(calls[2].model, ProviderFailure)

\* the place of a model in the consensus agent's list
ModelIndex(model) == CHOOSE j \in 1..Len(ConsensusModels) : ConsensusModels[j] = model

\* the consensus text over the answers to the round-trips `mine` of call id
ConsensusOf(id, mine) ==
    analyze_consensus([ k \in 1..Len(mine) |->
                          [ model    |-> mine[k].model,
                            response |-> ResponseContent(id, mine[k].model) ] ])

\* C15: consensus collector: a model without a provider is passed over in
\* silence. The round-trips of a consensus call go to models in list order;
\* as long as no round-trip fails the call raises nothing, whichever models
\* had no provider, and it returns one section for every model called, in
\* list order, and none for a model passed over.
C15_ConsensusSkipsUnresolvable ==
    \A s \in 1..Len(co) :
        co[s].agent = "consensus"
        => LET c    == co[s]
               mine == CallsOf(c.id)
           IN  /\ \A k, h \in 1..Len(mine) :
                      k < h => ModelIndex(mine[k].model) < ModelIndex(mine[h].model)
               /\ c.st = "exc" => \E k \in 1..Len(mine) : mine[k].st = "fail"
               /\ c.st = "ret" => c.val = ConsensusOf(c.id, mine)

\* a consensus call has returned two sections: the first and the third model
\* of the list answered, the second had no provider
C15_Witness ==
    \E s \in 1..Len(co) :
        /\ co[s].agent = "consensus"
        /\ co[s].st = "ret"
        /\ Len(CallsOf(co[s].id)) = 2
        /\ CallsOf(co[s].id)[1].model = "gemini-pro"
        /\ CallsOf(co[s].id)[2].model = "claude-haiku"
        /\ co[s].val = ConsensusOf(co[s].id, CallsOf(co[s].id))
        /\ Len(co[s].val) = 1 + 2 * 4 + 6

\* the round-trips of call id that the provider answered
SucceededOf(id) == SelectSeq(CallsOf(id), LAMBDA e : e.st = "ok")

\* C16 (the claim as stated; the code breaks it): consensus collector: a
\* failing round-trip for one model does not discard the other models. A
\* finished consensus call has returned, never raised, and its text has one
\* section for every model whose round-trip succeeded; when every model
\* failed or had no provider it is the synthesis text with no section.
C16_ConsensusKeepsSucceeded ==
    \A s \in 1..Len(co) :
        (co[s].agent = "consensus" /\ co[s].st \in { "ret", "exc" })
        => /\ co[s].st = "ret"
           /\ co[s].val = ConsensusOf(co[s].id, SucceededOf(co[s].id))

(* ----------------------------------------------------------------------- *)
(* Properties of the report                                                *)
(* ----------------------------------------------------------------------- *)

\* C17: every report a run returns has the status "Completed Successfully"
\* and counts every collected step, in "Total Steps" and in "Steps
\* Completed", however many of the steps are error texts, all of them
\* included.
C17_StatusUnconditional ==
    Reported
    => /\ result.report.summary.status = "Completed Successfully"
       /\ result.report.total_steps = Len(workflow_steps)
       /\ result.report.summary.steps_completed = Len(workflow_steps)
       /\ Len(result.report.sections) = Len(workflow_steps)
       /\ \A i \in 1..Len(workflow_steps) :
              result.report.sections[i].body = workflow_steps[i][2]

\* a report of two steps, both error texts, with the status "Completed
\* Successfully"
C17_Witness ==
    /\ Reported
    /\ Len(ReportSteps) = 2
    /\ IsErrorText(ReportSteps[1][2])
    /\ IsErrorText(ReportSteps[2][2])
    /\ result.report.total_steps = 2
    /\ result.report.summary.status = "Completed Successfully"

(* ----------------------------------------------------------------------- *)
(* Properties of the run's inputs                                          *)
(* ----------------------------------------------------------------------- *)

\* C18: no step of a run, of any workflow type, sequential or parallel,
\* succeeding or failing, changes the context mapping or the caller's task
\* list: both are after every step what they were before it.
C18_InputsUnchanged == [][tasks' = tasks /\ context' = context]_vars

\* a puzzle_generation run over a context with both keys and a list of
\* tasks is over: its first step was answered and its second step failed
C18_Witness ==
    /\ Done
    /\ workflow_type = "puzzle_generation"
    /\ context = { "difficulty_adjustment", "narrative" }
    /\ Len(tasks) >= 2
    /\ Len(calls) = 2
    /\ calls[1].st = "ok"
    /\ calls[2].st = "fail"

(* ----------------------------------------------------------------------- *)
(* Properties of the agent registry                                        *)
(* ----------------------------------------------------------------------- *)

\* the closed set of agent names: the nine of self.agents and the six
\* expanded names
ClosedAgentSet ==
    { "architecture", "implementation", "optimization", "content", "consensus",
      "procedural_puzzle", "dynamic_difficulty", "narrative", "asset_optimization",
      "story_weaver", "psychology", "game_expert", "pop_culture", "ux_ui",
      "creative_features" }

\* C19 (the claim as stated; the code breaks it): every name of the closed
\* agent set, the expanded names included, resolves to an agent when a
\* custom-workflow task names it: the task is run by the agent of that name
\* and does not end in the unknown-agent error; a name outside the set gives
\* the unknown-agent error.
C19_ClosedAgentSetResolves ==
    workflow_type = "custom"
    => \A i \in 1..Len(co) :
           co[i].st # "new"
           => IF LookupKey(i) \in ClosedAgentSet
              THEN /\ co[i].agent = LookupKey(i)
                   /\ co[i].val # << "Unknown agent: ", LookupKey(i) >>
              ELSE /\ co[i].st = "exc"
                   /\ co[i].val = << "Unknown agent: ", LookupKey(i) >>

(* ----------------------------------------------------------------------- *)
(* The named workflows and the parallel flag                               *)
(* ----------------------------------------------------------------------- *)

\* the steps of the run's workflow whose `if` holds, in table order
IncludedSteps == SelectSeq(StepTable(workflow_type), LAMBDA d : Included(d))

\* the round-trips a step makes when nothing fails: one, or one per task of
\* the step's type; what each is called with follows from the step, the
\* tasks and the strategy alone
StepCalls(d) ==
    LET n == IF d.each THEN Len(Matching(d.type)) ELSE 1
    IN  [ h \in 1..n |->
            [ id       |-> d.name \o " " \o ToString(h),
              agent    |-> d.agent,
              model    |-> IF ReadsModelArgument(d.agent)
                           THEN StepModel(d) ELSE PreferredModel(d.agent),
              thinking |-> IF ReadsModelArgument(d.agent)
                           THEN d.thinking ELSE DefaultThinkingMode(d.agent) ] ]

RECURSIVE StepCallsFrom(_)
StepCallsFrom(h) ==
    IF h > Len(IncludedSteps) THEN << >>
    ELSE StepCalls(IncludedSteps[h]) \o StepCallsFrom(h + 1)

\* the round-trips of a named run in which nothing fails, in order
ExpectedCalls == StepCallsFrom(1)

\* the text of a step all of whose round-trips were answered
ExpectedStepText(d) ==
    LET sc == StepCalls(d)
    IN  JoinBlank([ h \in 1..Len(sc) |-> ResponseContent(sc[h].id, sc[h].model) ])

\* C20: the four named workflow types do not read the parallel flag. With
\* parallel true as with parallel false, the round-trips of a run are the
\* leading part of one list fixed by tasks, context and strategy, made one
\* after the other (a later one only after every earlier one was answered),
\* and the steps collected are the leading part of one list fixed by the
\* same inputs; a report holds that whole list. The flag stands in none of
\* these lists, so two runs that differ in the flag alone and meet the same
\* provider outcomes make the same calls and return the same steps.
C20_NamedIgnoreParallel ==
    workflow_type \in NamedWorkflowTypes
    => LET expected == ExpectedCalls
           included == IncludedSteps
       IN  /\ Len(calls) <= Len(expected)
           /\ \A k \in 1..Len(calls) :
                  /\ calls[k].id = expected[k].id
                  /\ calls[k].agent = expected[k].agent
                  /\ calls[k].model = expected[k].model
                  /\ calls[k].thinking = expected[k].thinking
                  /\ k < Len(calls) => calls[k].st = "ok"
           /\ Len(workflow_steps) <= Len(included)
           /\ \A h \in 1..Len(workflow_steps) :
                  workflow_steps[h] = << included[h].name, ExpectedStepText(included[h]) >>
           /\ Reported => /\ Len(workflow_steps) = Len(included)
                          /\ ReportSteps = workflow_steps
                          /\ Len(calls) = Len(expected)

\* a content_creation run with parallel set has reported all four steps
\* after four round-trips made one after the other
C20_Witness ==
    /\ workflow_type = "content_creation"
    /\ parallel = TRUE
    /\ Reported
    /\ Len(ReportSteps) = 4
    /\ Len(calls) = 4
    /\ \A k \in 1..4 : calls[k].st = "ok"

(* ----------------------------------------------------------------------- *)
(* Steps and agent invocations                                             *)
(* ----------------------------------------------------------------------- *)

\* the number of agent.execute calls a reported run made. Custom: one for
\* each task whose agent is in the registry and whose prompt is present
\* (_execute_single_task raises before agent.execute otherwise). Named: every
\* step of a reported run succeeded, so each agent.execute made one
\* round-trip and the invocations are the round-trips
AgentInvocations ==
    IF workflow_type = "custom"
    THEN Cardinality({ i \in 1..Len(tasks) :
                         LookupKey(i) \in OrchestratorAgents /\ tasks[i].prompt # None })
    ELSE Len(calls)

\* C21 (the claim as stated; the code breaks it): every step is one agent
\* invocation and gives one step result: in a report the number of step
\* results is the number of agent invocations of the run, also in a
\* game_development run with two or more implementation tasks.
C21_OneStepPerInvocation ==
    Reported => Len(ReportSteps) = AgentInvocations

(* ----------------------------------------------------------------------- *)
(* Scheduling: what the event loop guarantees, what the providers may do   *)
(* ----------------------------------------------------------------------- *)

\* the orchestrator's own steps: a coroutine that is ready to run is run by
\* the event loop, so each of them is taken when it stays enabled
OrchestratorFairness ==
    /\ WF_vars(Execute)
    /\ WF_vars(\E r \in 0..Len(ConsensusModels) : NamedStepBegin(r))
    /\ WF_vars(NamedStepEnd)
    /\ WF_vars(NamedReport)
    /\ WF_vars(\E r \in 0..Len(ConsensusModels) : CustomStepBegin(r))
    /\ WF_vars(CustomStepEnd)
    /\ WF_vars(CustomReport)
    /\ WF_vars(\E i \in 1..Len(tasks), r \in 0..Len(ConsensusModels) : BranchBegin(i, r))
    /\ WF_vars(GatherDone)

\* the runs checked for progress: _select_model has no part in whether a
\* run goes on, so the strategy is the default one
LiveInit ==
    /\ Init
    /\ model_strategy = "auto"

\* a run whose providers are free never to answer: await
\* provider.generate_response(...) has no timeout
StallSpec == LiveInit /\ [][Next]_vars /\ OrchestratorFairness

\* a round-trip of the run is in flight
InFlight(k) == k \in 1..Len(calls) /\ calls[k].st = "inflight"

\* C22: a provider call that does not return holds the run. As long as a
\* round-trip is in flight no report is returned and execute has not ended;
\* in a sequential run it is the last round-trip started, so no later step's
\* call begins. In a parallel custom run every branch is still started
\* whatever the providers do, and the other branches run to their end,
\* while gather keeps waiting for the stalled one.
C22_StalledProviderHoldsRun ==
    /\ [](\A k \in 1..Len(calls) :
             InFlight(k) => /\ result = NoResult
                            /\ pc = "run"
                            /\ SequentialRun => k = Len(calls))
    /\ (ParallelRun /\ pc = "run")
           ~> (Len(co) = Len(tasks) /\ \A i \in 1..Len(co) : co[i].st # "new")

\* a parallel run of three tasks in which the first task's round-trip is
\* still in flight while the two later tasks were started and have got their
\* answers; no report yet
C22_Witness ==
    /\ ParallelRun /\ pc = "run"
    /\ Len(tasks) = 3
    /\ \E k \in 1..Len(calls) : calls[k].slot = 1 /\ calls[k].st = "inflight"
    /\ co[2].st = "ret" /\ co[3].st = "ret"
    /\ \E k \in 1..Len(calls) : calls[k].slot = 3 /\ calls[k].st = "ok"
    /\ result = NoResult

(* ----------------------------------------------------------------------- *)
(* The balanced strategy                                                   *)
(* ----------------------------------------------------------------------- *)

\* C23 (the claim as stated; the code breaks it): under balanced only the
\* premium base gemini-pro is substituted, by gemini-flash; the bases
\* gemini-flash, claude-haiku and ollama come back unchanged, so content
\* gives claude-haiku and optimization gives ollama.
C23_BalancedSubstitutesPremiumOnly ==
    (Selected /\ sel.strategy = "balanced" /\ sel.agent_type \in DOMAIN ReferenceBase)
    => LET base == ReferenceBase[sel.agent_type]
       IN  /\ base = "gemini-pro" => sel.first = "gemini-flash"
           /\ base \in { "gemini-flash", "claude-haiku", "ollama" } => sel.first = base
           /\ sel.agent_type = "content" => sel.first = "claude-haiku"
           /\ sel.agent_type = "optimization" => sel.first = "ollama"

(* ----------------------------------------------------------------------- *)
(* The thinking mode of a custom task                                      *)
(* ----------------------------------------------------------------------- *)

\* C24 (the claim as stated; the code breaks it): the thinking mode of every
\* round-trip made for a custom task is the task's thinking_mode when the
\* task has one, and otherwise the default thinking mode of the agent that
\* runs the task (high for architecture, medium for implementation).
C24_TaskThinkingModeOrAgentDefault ==
    workflow_type = "custom"
    => \A k \in 1..Len(calls) :
           LET task == tasks[calls[k].slot]
           IN  calls[k].thinking =
                   IF task.thinking_mode # None THEN task.thinking_mode
                   ELSE DefaultThinkingMode(LookupKey(calls[k].slot))

\* every provider round-trip ends, with an answer or with a failure: the
\* hypothesis under which a run has to finish
ProviderFairness ==
    \A slot \in 1..MaxCustomTasks :
        WF_vars(\E ok \in BOOLEAN, r \in 0..Len(ConsensusModels) :
                    ProviderReturn(slot, ok, r))

\* a run whose providers always answer in the end
FairSpec == LiveInit /\ [][Next]_vars /\ OrchestratorFairness /\ ProviderFairness

\* C25: when every provider call returns in the end, every call of execute
\* ends, with a report or with an exception: for the four named workflows,
\* for custom in both modes and for an unknown type; no run loops or waits
\* for ever by itself.
C25_EveryRunFinishes ==
    <>(pc = "done" /\ result.kind \in { "report", "raised" })

\* a parallel custom run of three tasks has ended with its report after
\* three or more round-trips, one of which failed
C25_Witness ==
    /\ Done /\ Reported
    /\ ParallelRun
    /\ Len(tasks) = 3
    /\ Len(calls) >= 3
    /\ \E k \in 1..Len(calls) : calls[k].st = "fail"
    /\ \A k \in 1..Len(calls) : calls[k].st # "inflight"

(* ----------------------------------------------------------------------- *)
(* The two modes of the custom workflow                                    *)
(* ----------------------------------------------------------------------- *)

\* the name the custom workflow's other mode gives to step i
OtherModeStepName(i) ==
    IF parallel THEN SequentialStepName(i) ELSE ParallelStepName(i)

\* C26 (the claim as stated; the code breaks it): for the same tasks,
\* context, strategy and provider outcomes, a custom run with parallel=true
\* and one with parallel=false give the same list of (step name, step text):
\* step i of a report has the name the other mode gives to task i, also for
\* a task without a name field, and its text is fixed by the outcome of
\* task i alone.
C26_ModesGiveSameSteps ==
    (Reported /\ workflow_type = "custom")
    => /\ Len(ReportSteps) = Len(tasks)
       /\ \A i \in 1..Len(tasks) :
              /\ ReportSteps[i][1] = OtherModeStepName(i)
              /\ CarriesOutcome(i)

(* ----------------------------------------------------------------------- *)
(* Which tasks the steps of a named workflow run                           *)
(* ----------------------------------------------------------------------- *)

\* the position in the task list of the h-th task of a type
NthOfType(type, h) ==
    CHOOSE i \in 1..Len(tasks) :
        /\ tasks[i].type = type
        /\ Cardinality({ j \in 1..i : tasks[j].type = type }) = h

\* how many tasks of a type the list holds
CountOfType(type) == Cardinality({ i \in 1..Len(tasks) : tasks[i].type = type })

\* the round-trips made for the step named name, in starting order
CallsOfStep(name) ==
    SelectSeq(calls, LAMBDA e : \E n \in 1..(MaxTasks + 1) :
                                    e.id = name \o " " \o ToString(n))

\* the step with the given name was collected
CollectedStep(name) ==
    { h \in 1..Len(workflow_steps) : workflow_steps[h][1] = name }

\* C27: in the named workflows every step but game_development's
\* Implementation makes at most one agent call, and that call is for the
\* first task of the step's type: a further task of the type causes no
\* round-trip. The Implementation step makes one agent call per
\* implementation task, in the order of the task list, and its step text is
\* the answers joined in that order.
C27_FirstTaskOfTypeElseEachImplementation ==
    workflow_type \in NamedWorkflowTypes
    => \A j \in 1..Len(StepTable(workflow_type)) :
           LET d    == StepTable(workflow_type)[j]
               mine == CallsOfStep(d.name)
               text == JoinBlank([ h \in 1..Len(mine) |->
                                     ResponseContent(mine[h].id, mine[h].model) ])
           IN  /\ d.name # "Implementation"
                      => /\ Len(mine) <= 1
                         /\ \A h \in 1..Len(mine) : mine[h].task = NthOfType(d.type, 1)
               /\ d.name = "Implementation"
                      => /\ Len(mine) <= CountOfType("implementation")
                         /\ \A h \in 1..Len(mine) :
                                mine[h].task = NthOfType("implementation", h)
               /\ \A h \in CollectedStep(d.name) :
                      /\ workflow_steps[h][2] = text
                      /\ Len(mine) = IF d.name = "Implementation"
                                     THEN CountOfType("implementation") ELSE 1

\* a game_development report for the list architecture, implementation,
\* architecture, implementation: three round-trips, for the tasks at the
\* positions 1, 2 and 4; the second architecture task caused none
C27_Witness ==
    /\ workflow_type = "game_development"
    /\ Reported
    /\ Len(tasks) = 4
    /\ tasks[1].type = "architecture" /\ tasks[3].type = "architecture"
    /\ tasks[2].type = "implementation" /\ tasks[4].type = "implementation"
    /\ Len(calls) = 3
    /\ calls[1].task = 1 /\ calls[2].task = 2 /\ calls[3].task = 4
    /\ Len(ReportSteps) = 2
    /\ Len(ReportSteps[2][2]) = 3

(* ----------------------------------------------------------------------- *)
(* WritersRoomTool (writers_room.py): session_history and execute          *)
(* ----------------------------------------------------------------------- *)

\* the calls of execute made on one WritersRoomTool, possibly overlapping
MaxSessions == 2

\* the variables of the orchestrator run, which the other components leave
\* alone
orchestrator ==
    << inputs, pc, si, ti, acc, co, calls, workflow_steps, result, sel >>

\* no orchestrator run and no call of _select_model is going on
NoOrchestrator ==
    /\ workflow_type = None
    /\ tasks = << >>
    /\ context = { }
    /\ parallel = FALSE
    /\ model_strategy = "auto"
    /\ pc = "off"
    /\ si = 1
    /\ ti = 0
    /\ acc = << >>
    /\ co = << >>
    /\ calls = << >>
    /\ workflow_steps = << >>
    /\ result = NoResult
    /\ sel = NoSelect

\* the session types of the if/elif chain of execute
SessionTypes ==
    { "character_development", "plot_development", "dialogue_writing",
      "world_building", "story_outlining", "genre_consultation" }

\* the specialist whose execute a session awaits first: it is the one that
\* calls the provider. story_outlining awaits only helpers that return
\* constants
FirstSpecialist(session_type) ==
    CASE session_type = "character_development" -> "character_developer"
      [] session_type = "plot_development"      -> "plot_architect"
      [] session_type = "dialogue_writing"      -> "dialogue_coach"
      [] session_type = "world_building"        -> "world_builder"
      [] session_type = "genre_consultation"    -> "genre_consultant"
      [] OTHER                                  -> None

\* what a specialist's execute raises when the registry has no provider for
\* "ollama": CharacterDeveloper tests the provider, the others call
\* generate_response on None
NoProviderError(specialist) ==
    IF specialist = "character_developer"
    THEN << "Ollama provider not available" >>
    ELSE << "'NoneType' object has no attribute 'generate_response'" >>

UnknownSessionText(session_type) == << "Unknown session type: ", session_type >>

\* a call of execute that has not begun
NewSession(session_type) ==
    [ st |-> "new", session_type |-> session_type, error |-> << >> ]

\* WritersRoomTool() and the calls of execute that are going to be made
RoomInit ==
    /\ NoOrchestrator
    /\ phase = NoPhase
    /\ \E n \in 1..MaxSessions :
           room \in [ stage : { "on" },
                      session_history : { << >> },
                      runs : [ 1..n -> { NewSession(s) :
                                           s \in SessionTypes \cup { "nonsense" } } ] ]

\* the bug "logged after the dispatch": the entry is appended only once the
\* session type was recognised
RoomExecuteAppendLate(c, r) ==
    /\ room.stage = "on"
    /\ c \in 1..Len(room.runs)
    /\ room.runs[c].st = "new"
    /\ LET run  == room.runs[c]
           info == [ type |-> run.session_type, session_id |-> c ]
           spec == FirstSpecialist(run.session_type)
       IN  IF run.session_type \notin SessionTypes
           THEN room' = [ room EXCEPT
                            !.runs[c].st = "raised",
                            !.runs[c].error = UnknownSessionText(run.session_type) ]
           ELSE room' = [ room EXCEPT
                            !.session_history = Append(@, info),
                            !.runs[c].st = IF spec = None THEN "returned"
                                           ELSE IF r = 0 THEN "raised" ELSE "await",
                            !.runs[c].error = IF spec # None /\ r = 0
                                              THEN NoProviderError(spec) ELSE << >> ]
    /\ UNCHANGED << orchestrator, phase >>

\* execute(context) from its first line to its first suspension point, its
\* return or its exception: session_info is appended to session_history,
\* then the session's first specialist looks its provider up (r = 0: none)
RoomExecute(c, r) ==
    /\ room.stage = "on"
    /\ c \in 1..Len(room.runs)
    /\ room.runs[c].st = "new"
    /\ LET run  == room.runs[c]
           info == [ type |-> run.session_type, session_id |-> c ]
           spec == FirstSpecialist(run.session_type)
       IN  room' = [ room EXCEPT
                       !.session_history = Append(@, info),
                       !.runs[c].st =
                           IF run.session_type \notin SessionTypes THEN "raised"
                           ELSE IF spec = None THEN "returned"
                           ELSE IF r = 0 THEN "raised" ELSE "await",
                       !.runs[c].error =
                           IF run.session_type \notin SessionTypes
                           THEN UnknownSessionText(run.session_type)
                           ELSE IF spec # None /\ r = 0 THEN NoProviderError(spec)
                           ELSE << >> ]
    /\ UNCHANGED << orchestrator, phase >>

\* provider.generate_response of the specialist returns (ok) or raises: the
\* session runs on through its helpers and the formatter and execute
\* returns, or the exception leaves execute
RoomProviderReturn(c, ok) ==
    /\ room.stage = "on"
    /\ c \in 1..Len(room.runs)
    /\ room.runs[c].st = "await"
    /\ room' = [ room EXCEPT
                   !.runs[c].st = IF ok THEN "returned" ELSE "raised",
                   !.runs[c].error = IF ok THEN << >> ELSE ProviderFailure ]
    /\ UNCHANGED << orchestrator, phase >>

RoomNext ==
    \/ \E c \in 1..MaxSessions, r \in 0..1 : RoomExecute(c, r)
    \/ \E c \in 1..MaxSessions, ok \in BOOLEAN : RoomProviderReturn(c, ok)

RoomSpec == RoomInit /\ [][RoomNext]_vars

\* the calls of execute that have begun
StartedSessions == { c \in 1..Len(room.runs) : room.runs[c].st # "new" }

\* C28: on one WritersRoomTool, whatever calls of execute were made and
\* however they overlap, session_history has as many entries as calls were
\* started: every started call has exactly one entry, of its session type,
\* which is there before its specialist's provider call and stays when the
\* call fails with an unknown session type or a provider failure; a call
\* not yet started has none.
C28_HistoryCountsStartedCalls ==
    room.stage = "on"
    => /\ Len(room.session_history) = Cardinality(StartedSessions)
       /\ \A c \in 1..Len(room.runs) :
              LET mine == { h \in 1..Len(room.session_history) :
                              room.session_history[h].session_id = c }
              IN  /\ Cardinality(mine) = IF c \in StartedSessions THEN 1 ELSE 0
                  /\ \A h \in mine :
                         room.session_history[h].type = room.runs[c].session_type

\* two overlapping calls: the second one started first and waits for its
\* provider, the first one failed with an unknown session type; both have
\* their entry
C28_Witness ==
    /\ room.stage = "on"
    /\ Len(room.runs) = 2
    /\ room.runs[1].st = "raised"
    /\ room.runs[1].error = UnknownSessionText("nonsense")
    /\ room.runs[2].st = "await"
    /\ Len(room.session_history) = 2
    /\ room.session_history[1].session_id = 2

(* ----------------------------------------------------------------------- *)
(* PhaseCoordinator (specialized_agents_expanded.py)                       *)
(*                                                                         *)
(* The module defines _execute_with_model with `def`, not `async def`, and *)
(* the body holds `await provider.generate_response(...)`.  Python rejects *)
(* the file when it compiles it ("SyntaxError: 'await' outside async       *)
(* function"), so no statement of the module runs: no agent class, no      *)
(* PhaseCoordinator and no NEW_SPECIALIZED_AGENTS come into being, and a    *)
(* caller's import raises.                                                 *)
(* ----------------------------------------------------------------------- *)

\* the keys of project_requirements that execute_phase_1 tests
RequirementKeys == { "story", "player_data", "puzzles", "aesthetic", "core_mechanic" }

\* the keys of a phase_1_results mapping handed to execute_phase_2
ResultKeys == { "agent_0", "agent_1", "agent_2" }

\* a phase_1_results mapping: each entry an agent's text or an error text
PhaseOneResults ==
    UNION { [ K -> { "text", "error" } ] : K \in SUBSET ResultKeys }

SyntaxErrorText == << "SyntaxError: 'await' outside async function" >>

\* a caller is about to import the module in order to call execute_phase_1
\* with the requirements, or execute_phase_2 with the results
PhaseInit ==
    /\ NoOrchestrator
    /\ room = NoRoom
    /\ \/ \E req \in SUBSET RequirementKeys :
              phase = [ stage |-> "import", call |-> "execute_phase_1",
                        requirements |-> req, results |-> << >>, error |-> << >> ]
       \/ \E res \in PhaseOneResults :
              phase = [ stage |-> "import", call |-> "execute_phase_2",
                        requirements |-> { }, results |-> res, error |-> << >> ]

\* `from tools.specialized_agents_expanded import PhaseCoordinator`: the
\* compilation of the module fails and the import raises
ImportExpandedAgents ==
    /\ phase.stage = "import"
    /\ phase' = [ phase EXCEPT !.stage = "raised", !.error = SyntaxErrorText ]
    /\ UNCHANGED << orchestrator, room >>

PhaseNext == ImportExpandedAgents

PhaseSpec == PhaseInit /\ [][PhaseNext]_vars

\* the agents the rule of execute_phase_1 dispatches for the requirements,
\* in dispatch order
DispatchedAgents(req) ==
    (IF "story" \in req THEN << "story_weaver" >> ELSE << >>)
    \o (IF "player_data" \in req THEN << "psychology" >> ELSE << >>)
    \o (IF "puzzles" \in req /\ "story" \in req THEN << "game_expert" >> ELSE << >>)
    \o (IF "aesthetic" \in req THEN << "pop_culture" >> ELSE << >>)
    \o << "ux_ui" >>
    \o (IF "core_mechanic" \in req THEN << "creative_features" >> ELSE << >>)

\* the caller's attempt is over
PhaseOver == phase.stage \notin { "off", "import" }

\* C29 (the claim as stated; the code breaks it): execute_phase_1 dispatches
\* one agent per satisfied requirement key (ux_ui always) and returns one
\* entry per dispatched agent, agent_0 .. agent_{n-1} in dispatch order, an
\* agent that failed holding its "Error in <agent>: ..." text.
C29_PhaseOneEntryPerDispatchedAgent ==
    (PhaseOver /\ phase.call = "execute_phase_1")
    => /\ phase.stage = "returned"
       /\ DOMAIN phase.returned
              = { "agent_" \o ToString(i - 1) :
                    i \in 1..Len(DispatchedAgents(phase.requirements)) }
       /\ \A i \in 1..Len(DispatchedAgents(phase.requirements)) :
              phase.returned["agent_" \o ToString(i - 1)].agent
                  = DispatchedAgents(phase.requirements)[i]

\* C30 (the claim as stated; the code breaks it): execute_phase_2, given a
\* phase-1 result mapping and a provider that answers, makes one provider
\* round-trip through the game_expert agent and returns the provider's text.
C30_PhaseTwoReturnsProviderText ==
    (PhaseOver /\ phase.call = "execute_phase_2")
    => /\ phase.stage = "returned"
       /\ phase.round_trips = 1
       /\ phase.returned = ResponseContent("phase 2", "ollama")

====
